---- MODULE Spec2Model ----
(***************************************************************************)
(* The SunSchedule view of circadian-timer, in its two variants:           *)
(*   "default"   - src/src/SunSchedule.tsx                                 *)
(*   "persisted" - src/unnamed/part_000 (saved ZIP code, location label,   *)
(*                 toddler bedtime, "Use Location" reset button)           *)
(* One action is one uninterrupted run of JavaScript: an event handler up  *)
(* to its first await, or the continuation of an async function from the   *)
(* answer of an external call to the end of the handler (the promise       *)
(* continuations in between are microtasks, which no event can interleave).*)
(* The startup effect runs once per page load (production rendering).      *)
(***************************************************************************)
EXTENDS Integers, Sequences, FiniteSets, TLC

\* Cycles (startup, submissions, resets) that one page load may start.
MaxCycles == 3

\* Cycles of the page load whose progress is followed to its end: the startup
\* and the user actions after which the user does nothing more.
MaxLoadCycles == 2

----------------------------------------------------------------------------
\* Values

Variants == {"default", "persisted"}

\* JavaScript null of the string-valued error state.
Null == "null"

ZIP_STORAGE_KEY == "lastUsedZipCode"

GeoDeniedMsg == "Location access denied. Please enter your zip code."
InvalidZipMsg == "Invalid zip code. Please try again."
SunFailedMsg == "Failed to fetch sun data. Please try again."
CurrentLocation == "Current Location"

Digits == {"0", "1", "2", "3", "4", "5", "6", "7", "8", "9"}

\* Texts the user may leave in the ZIP input (maxLength = 5 caps typing).
ZipInputs ==
    { <<>>,
      <<"9", "0", "2", "1">>,
      <<"9", "0", "2", "1", "0">>,
      <<"0", "0", "0", "0", "0">>,
      <<"9", "0", "2", "1", "x">> }

\* data.places of the postal-code service's answer for a code: the service
\* knows one of the codes the user may enter.
PlacesOf(zip) ==
    IF zip = <<"9", "0", "2", "1", "0">>
    THEN { [name |-> "Beverly Hills, California", latitude |-> 34, longitude |-> -118] }
    ELSE {}

\* Positions the device may report.
Positions == { [latitude |-> 51, longitude |-> 0] }

\* ISO-8601 UTC timestamps the sunrise/sunset service may answer with
\* (formatted=0), as their fields; day counts days since 1970-01-01.
SunriseStamps ==
    { [day |-> 1, hour |-> 6, minute |-> 12, second |-> 0],
      [day |-> 1, hour |-> 0, minute |-> 30, second |-> 7] }

SunsetStamps ==
    { [day |-> 1, hour |-> 19, minute |-> 47, second |-> 0],
      [day |-> 1, hour |-> 23, minute |-> 0, second |-> 59] }

\* Status values of the sunrise/sunset service other than "OK".
BadStatuses == {"INVALID_REQUEST"}

----------------------------------------------------------------------------
\* Pure functions

\* new Date(isoString).getTime(): milliseconds since the epoch.
DateParse(stamp) ==
    (((stamp.day * 24 + stamp.hour) * 60 + stamp.minute) * 60 + stamp.second) * 1000

\* The body of `if (data.status === 'OK')` of the default variant.
deriveScheduleDefault(sunriseTime, sunsetTime) ==
    LET civilDawn == sunriseTime - 35 * 60000
        civilDusk == sunsetTime + 35 * 60000
        wakeTime  == civilDawn - 45 * 60000
        bedTime   == sunsetTime + (25 * 60 * 60000) \div 10
    IN  [wakeTime |-> wakeTime, civilDawn |-> civilDawn,
         sunrise |-> sunriseTime, sunset |-> sunsetTime,
         civilDusk |-> civilDusk, bedTime |-> bedTime]

\* deriveSchedulePersisted with the wake time counted from sunrise instead of
\* from civil dawn.
deriveSchedulePersisted_WakeFromSunrise(sunriseTime, sunsetTime) ==
    LET civilDawn == sunriseTime - 35 * 60000
        civilDusk == sunsetTime + 35 * 60000
        wakeTime  == sunriseTime - 45 * 60000
        adultBedTime   == sunsetTime + (25 * 60 * 60000) \div 10
        toddlerBedTime == wakeTime - 11 * 60 * 60 * 1000
    IN  [wakeTime |-> wakeTime, civilDawn |-> civilDawn,
         sunrise |-> sunriseTime, sunset |-> sunsetTime,
         civilDusk |-> civilDusk, adultBedTime |-> adultBedTime,
         toddlerBedTime |-> toddlerBedTime]

\* The body of `if (data.status === 'OK')` of the persisted variant.
deriveSchedulePersisted(sunriseTime, sunsetTime) ==
    LET civilDawn == sunriseTime - 35 * 60000
        civilDusk == sunsetTime + 35 * 60000
        wakeTime  == civilDawn - 45 * 60000
        adultBedTime   == sunsetTime + (25 * 60 * 60000) \div 10
        toddlerBedTime == wakeTime - 11 * 60 * 60 * 1000
    IN  [wakeTime |-> wakeTime, civilDawn |-> civilDawn,
         sunrise |-> sunriseTime, sunset |-> sunsetTime,
         civilDusk |-> civilDusk, adultBedTime |-> adultBedTime,
         toddlerBedTime |-> toddlerBedTime]

\* pattern="[0-9]{5}": the input suffers from a pattern mismatch (the empty
\* value never does).
PatternMismatch(z) ==
    /\ z # <<>>
    /\ ~(Len(z) = 5 /\ \A i \in 1..Len(z) : z[i] \in Digits)

----------------------------------------------------------------------------
\* State

VARIABLES
    variant,      \* which of the two components is mounted
    mounted,      \* the startup effect has run
    schedule,     \* <<>> (null) or <<Schedule>>
    loading,
    error,        \* Null or a message
    zipCode,      \* text of the ZIP input, a sequence of characters
    useZipCode,
    location,     \* persisted variant: the location label ("" when unset)
    storage,      \* localStorage: a function from keys to values
    cycles,       \* the invocations of getLocationAndSunData/handleZipCodeSubmit
    last,         \* the step taken last (history)
    setBy         \* the cycles that set schedule and location last (history)

vars == <<variant, mounted, schedule, loading, error, zipCode, useZipCode,
          location, storage, cycles, last, setBy>>

\* localStorage.getItem(key): <<>> for null, else <<value>>.
getItem(key) == IF key \in DOMAIN storage THEN <<storage[key]>> ELSE <<>>

\* localStorage.setItem(key, value)
setItem(key, value) == [k \in DOMAIN storage \cup {key} |->
                            IF k = key THEN value ELSE storage[k]]

\* removeItem that removes nothing.
removeItem_Noop(key) == storage

\* localStorage.removeItem(key)
removeItem(key) == [k \in DOMAIN storage \ {key} |-> storage[k]]

\* `if (loading && !useZipCode)`: only the loading card is rendered.
LoadingView == loading /\ ~useZipCode

\* `{(error || useZipCode) && <form ...>}`
FormShown == mounted /\ ~LoadingView /\ (error # Null \/ useZipCode)

\* The submit button without `loading ||`.
SubmitDisabled_IgnoreLoading == Len(zipCode) # 5

\* disabled={loading || zipCode.length !== 5} of the submit button
SubmitDisabled == loading \/ Len(zipCode) # 5

\* The browser dispatches the form's submit event: the form is rendered, its
\* submit button is enabled and the input satisfies its pattern constraint.
CanSubmit == FormShown /\ ~SubmitDisabled /\ ~PatternMismatch(zipCode)

\* A cycle that has just issued its first external call.
NewCycle(origin, strategy, zip) ==
    [origin |-> origin, strategy |-> strategy, pc |-> strategy, zip |-> zip,
     coords |-> <<>>, label |-> "",
     geoReqs |-> IF strategy = "geo" THEN 1 ELSE 0,
     zipReqs |-> IF strategy = "zip" THEN 1 ELSE 0,
     sunReqs |-> 0,
     resolution |-> "pending", sunResult |-> "none",
     schedAtStart |-> schedule]

Step(op, cycle, response) == [op |-> op, cycle |-> cycle, response |-> response]

NoResponse == [status |-> "none"]

\* Neither setSchedule nor setLocation has been called since the page loaded.
NobodyYet == [schedule |-> 0, location |-> 0]

Init ==
    /\ variant \in Variants
    /\ mounted = FALSE
    /\ schedule = <<>>
    /\ loading = TRUE
    /\ error = Null
    /\ zipCode = <<>>
    /\ useZipCode = FALSE
    /\ location = ""
    /\ storage = [k \in {} |-> <<>>]
    /\ cycles = <<>>
    /\ last = Step("init", 0, NoResponse)
    /\ setBy = NobodyYet

----------------------------------------------------------------------------
\* Operations

\* The synchronous part of getLocationAndSunData: getCurrentPosition is called.
StartGeoCycle(origin) == Append(cycles, NewCycle(origin, "geo", <<>>))

\* The synchronous part of handleZipCodeSubmit: the postal lookup of zipToUse
\* is requested.
StartZipCycle(origin, zipToUse) == Append(cycles, NewCycle(origin, "zip", zipToUse))

\* What the `finally` of a cycle leaves in its record.
Finish(c, resolution, sunResult) ==
    [c EXCEPT !.pc = "done", !.resolution = resolution, !.sunResult = sunResult]

\* A resolution succeeded and fetchSunData(latitude, longitude) issued its
\* request.
Resolved(c, coords, label) ==
    [c EXCEPT !.pc = "sun", !.resolution = "ok", !.coords = <<coords>>,
              !.label = label, !.sunReqs = @ + 1]

\* useEffect(..., []) of the default variant.
StartupDefault ==
    /\ variant = "default"
    /\ ~mounted
    /\ mounted' = TRUE
    /\ cycles' = StartGeoCycle("startup")
    /\ last' = Step("startup", Len(cycles) + 1, NoResponse)
    /\ UNCHANGED <<setBy, variant, schedule, loading, error, zipCode, useZipCode,
                   location, storage>>

\* useEffect(..., []) of the persisted variant.
StartupPersisted ==
    /\ variant = "persisted"
    /\ ~mounted
    /\ mounted' = TRUE
    /\ LET savedZip == getItem(ZIP_STORAGE_KEY) IN
         IF savedZip # <<>> /\ savedZip[1] # <<>>
         THEN /\ zipCode' = savedZip[1]
              /\ useZipCode' = TRUE
              /\ loading' = TRUE
              /\ cycles' = StartZipCycle("startup", savedZip[1])
         ELSE /\ cycles' = StartGeoCycle("startup")
              /\ UNCHANGED <<zipCode, useZipCode, loading>>
    /\ last' = Step("startup", Len(cycles) + 1, NoResponse)
    /\ UNCHANGED <<setBy, variant, schedule, error, location, storage>>

\* onChange of the ZIP input.
setZipCode(z) ==
    /\ FormShown
    /\ z # zipCode
    /\ zipCode' = z
    /\ last' = Step("setZipCode", 0, NoResponse)
    /\ UNCHANGED <<setBy, variant, mounted, schedule, loading, error, useZipCode,
                   location, storage, cycles>>

\* onSubmit of the form: handleZipCodeSubmit(e) up to its first await.
handleZipCodeSubmit ==
    /\ CanSubmit
    /\ Len(cycles) < MaxCycles
    /\ loading' = TRUE
    /\ cycles' = StartZipCycle("submit", zipCode)
    /\ last' = Step("handleZipCodeSubmit", Len(cycles) + 1, NoResponse)
    /\ UNCHANGED <<setBy, variant, mounted, schedule, error, zipCode, useZipCode,
                   location, storage>>

\* onClick of the "Use Location" button (persisted variant).
handleReset ==
    /\ variant = "persisted"
    /\ FormShown
    /\ Len(cycles) < MaxCycles
    /\ storage' = removeItem(ZIP_STORAGE_KEY)
    /\ zipCode' = <<>>
    /\ useZipCode' = FALSE
    /\ loading' = TRUE
    /\ cycles' = StartGeoCycle("reset")
    /\ last' = Step("handleReset", Len(cycles) + 1, NoResponse)
    /\ UNCHANGED <<setBy, variant, mounted, schedule, error, location>>

\* getCurrentPosition calls resolve: fetchSunData is called with the position.
GeoGranted(i, position) ==
    /\ cycles[i].pc = "geo"
    /\ cycles' = [cycles EXCEPT ![i] = Resolved(@, position, CurrentLocation)]
    /\ last' = Step("GeoGranted", i, NoResponse)
    /\ UNCHANGED <<setBy, variant, mounted, schedule, loading, error, zipCode,
                   useZipCode, location, storage>>

\* GeoDenied that asks the device again instead of giving up.
GeoDenied_Retry(i) ==
    /\ cycles[i].pc = "geo"
    /\ cycles' = [cycles EXCEPT ![i].geoReqs = @ + 1]
    /\ last' = Step("GeoDenied", i, NoResponse)
    /\ UNCHANGED <<setBy, variant, mounted, schedule, loading, error, zipCode,
                   useZipCode, location, storage>>

\* getCurrentPosition calls the error callback: catch and finally of
\* getLocationAndSunData.
GeoDenied(i) ==
    /\ cycles[i].pc = "geo"
    /\ error' = GeoDeniedMsg
    /\ useZipCode' = TRUE
    /\ loading' = FALSE
    /\ cycles' = [cycles EXCEPT ![i] = Finish(@, "failed", "none")]
    /\ last' = Step("GeoDenied", i, NoResponse)
    /\ UNCHANGED <<setBy, variant, mounted, schedule, zipCode, location, storage>>

\* The postal lookup answers with a place: fetchZipCodeLocation returns and
\* fetchSunData is called.
ZipFound(i, place) ==
    /\ cycles[i].pc = "zip"
    /\ place \in PlacesOf(cycles[i].zip)
    /\ cycles' = [cycles EXCEPT ![i] =
                     Resolved(@, [latitude |-> place.latitude,
                                  longitude |-> place.longitude], place.name)]
    /\ last' = Step("ZipFound", i, NoResponse)
    /\ UNCHANGED <<setBy, variant, mounted, schedule, loading, error, zipCode,
                   useZipCode, location, storage>>

\* ZipNotFound that also drops the displayed schedule.
ZipNotFound_ClearSchedule(i) ==
    /\ cycles[i].pc = "zip"
    /\ error' = InvalidZipMsg
    /\ loading' = FALSE
    /\ schedule' = <<>>
    /\ cycles' = [cycles EXCEPT ![i] = Finish(@, "failed", "none")]
    /\ last' = Step("ZipNotFound", i, NoResponse)
    /\ setBy' = [setBy EXCEPT !.schedule = 0]
    /\ UNCHANGED <<variant, mounted, zipCode, useZipCode, location, storage>>

\* The postal lookup answers with no places, or fails: fetchZipCodeLocation
\* throws, then catch and finally of handleZipCodeSubmit.
ZipNotFound(i) ==
    /\ cycles[i].pc = "zip"
    /\ error' = InvalidZipMsg
    /\ loading' = FALSE
    /\ cycles' = [cycles EXCEPT ![i] = Finish(@, "failed", "none")]
    /\ last' = Step("ZipNotFound", i, NoResponse)
    /\ UNCHANGED <<setBy, variant, mounted, schedule, zipCode, useZipCode, location,
                   storage>>

\* The caller's try block without localStorage.setItem.
storageAfterFetch_NoSave(c) == storage

\* What follows `await fetchSunData(...)` when it returned normally, in the
\* caller's try block.
storageAfterFetch(c) ==
    IF variant = "persisted" /\ c.strategy = "zip"
    THEN setItem(ZIP_STORAGE_KEY, c.zip)
    ELSE storage

locationAfterFetch(c) ==
    IF variant = "persisted" THEN c.label ELSE location

\* The cycle whose setLocation call is the last one once cycle i has gone
\* through the rest of its try block.
setterAfterFetch(i) ==
    IF variant = "persisted" THEN i ELSE setBy.location

\* The schedule fetchSunData stores for an OK response.
scheduleOf(sunrise, sunset) ==
    IF variant = "persisted"
    THEN deriveSchedulePersisted(DateParse(sunrise), DateParse(sunset))
    ELSE deriveScheduleDefault(DateParse(sunrise), DateParse(sunset))

\* SunOK without setError(null).
SunOK_KeepError(i, sunrise, sunset) ==
    /\ cycles[i].pc = "sun"
    /\ schedule' = <<scheduleOf(sunrise, sunset)>>
    /\ storage' = storageAfterFetch(cycles[i])
    /\ location' = locationAfterFetch(cycles[i])
    /\ loading' = FALSE
    /\ cycles' = [cycles EXCEPT ![i] = Finish(@, "ok", "OK")]
    /\ last' = Step("SunOK", i,
                    [status |-> "OK", sunrise |-> sunrise, sunset |-> sunset])
    /\ setBy' = [schedule |-> i, location |-> setterAfterFetch(i)]
    /\ UNCHANGED <<variant, mounted, error, zipCode, useZipCode>>

\* The sun service answers with status OK: fetchSunData stores the schedule
\* and returns, the caller finishes its try block and its finally.
SunOK(i, sunrise, sunset) ==
    /\ cycles[i].pc = "sun"
    /\ schedule' = <<scheduleOf(sunrise, sunset)>>
    /\ error' = Null
    /\ storage' = storageAfterFetch(cycles[i])
    /\ location' = locationAfterFetch(cycles[i])
    /\ loading' = FALSE
    /\ cycles' = [cycles EXCEPT ![i] = Finish(@, "ok", "OK")]
    /\ last' = Step("SunOK", i,
                    [status |-> "OK", sunrise |-> sunrise, sunset |-> sunset])
    /\ setBy' = [schedule |-> i, location |-> setterAfterFetch(i)]
    /\ UNCHANGED <<variant, mounted, zipCode, useZipCode>>

\* The sun service answers with another status: fetchSunData returns without
\* doing anything, the caller finishes its try block and its finally.
SunNotOK(i, status) ==
    /\ cycles[i].pc = "sun"
    /\ storage' = storageAfterFetch(cycles[i])
    /\ location' = locationAfterFetch(cycles[i])
    /\ loading' = FALSE
    /\ cycles' = [cycles EXCEPT ![i] = Finish(@, "ok", "notOK")]
    /\ last' = Step("SunNotOK", i, [status |-> status])
    /\ setBy' = [setBy EXCEPT !.location = setterAfterFetch(i)]
    /\ UNCHANGED <<variant, mounted, schedule, error, zipCode, useZipCode>>

\* SunFailed whose caller has no `finally`: loading is not released.
SunFailed_NoFinally(i) ==
    /\ cycles[i].pc = "sun"
    /\ error' = SunFailedMsg
    /\ useZipCode' = IF cycles[i].strategy = "geo" THEN TRUE ELSE useZipCode
    /\ cycles' = [cycles EXCEPT ![i] = Finish(@, "ok", "failed")]
    /\ last' = Step("SunFailed", i, NoResponse)
    /\ UNCHANGED <<setBy, variant, mounted, schedule, loading, zipCode, location,
                   storage>>

\* The sun request fails (network, malformed body): fetchSunData throws, then
\* catch and finally of the caller.
SunFailed(i) ==
    /\ cycles[i].pc = "sun"
    /\ error' = SunFailedMsg
    /\ useZipCode' = IF cycles[i].strategy = "geo" THEN TRUE ELSE useZipCode
    /\ loading' = FALSE
    /\ cycles' = [cycles EXCEPT ![i] = Finish(@, "ok", "failed")]
    /\ last' = Step("SunFailed", i, NoResponse)
    /\ UNCHANGED <<setBy, variant, mounted, schedule, zipCode, location, storage>>

\* The page is loaded again: the component state is constructed anew, the
\* calls of the old page are abandoned, localStorage survives.
Reload ==
    /\ mounted
    /\ mounted' = FALSE
    /\ schedule' = <<>>
    /\ loading' = TRUE
    /\ error' = Null
    /\ zipCode' = <<>>
    /\ useZipCode' = FALSE
    /\ location' = ""
    /\ cycles' = <<>>
    /\ last' = Step("Reload", 0, NoResponse)
    /\ setBy' = NobodyYet
    /\ UNCHANGED <<variant, storage>>

Next ==
    \/ StartupDefault
    \/ StartupPersisted
    \/ \E z \in ZipInputs : setZipCode(z)
    \/ handleZipCodeSubmit
    \/ handleReset
    \/ \E i \in 1..Len(cycles) : \E p \in Positions : GeoGranted(i, p)
    \/ \E i \in 1..Len(cycles) : GeoDenied(i)
    \/ \E i \in 1..Len(cycles) : \E p \in PlacesOf(cycles[i].zip) : ZipFound(i, p)
    \/ \E i \in 1..Len(cycles) : ZipNotFound(i)
    \/ \E i \in 1..Len(cycles) : \E sr \in SunriseStamps : \E ss \in SunsetStamps :
           SunOK(i, sr, ss)
    \/ \E i \in 1..Len(cycles) : \E st \in BadStatuses : SunNotOK(i, st)
    \/ \E i \in 1..Len(cycles) : SunFailed(i)
    \/ Reload

Spec == Init /\ [][Next]_vars

\* The startup effect of the mounted component.
Startup == StartupDefault \/ StartupPersisted

\* The external call that cycle i is waiting for is answered, in any way.
CallAnswered(i) ==
    /\ i \in 1..Len(cycles)
    /\ \/ \E p \in Positions : GeoGranted(i, p)
       \/ GeoDenied(i)
       \/ \E p \in PlacesOf(cycles[i].zip) : ZipFound(i, p)
       \/ ZipNotFound(i)
       \/ \E sr \in SunriseStamps : \E ss \in SunsetStamps : SunOK(i, sr, ss)
       \/ \E st \in BadStatuses : SunNotOK(i, st)
       \/ SunFailed(i)

\* One page load: the component as constructed, with localStorage empty or
\* holding the code an earlier page load of the persisted variant saved.
LoadInit ==
    /\ variant \in Variants
    /\ mounted = FALSE
    /\ schedule = <<>>
    /\ loading = TRUE
    /\ error = Null
    /\ zipCode = <<>>
    /\ useZipCode = FALSE
    /\ location = ""
    /\ storage \in {[k \in {} |-> <<>>]} \cup
                   (IF variant = "persisted"
                    THEN {[k \in {ZIP_STORAGE_KEY} |-> <<"9", "0", "2", "1", "0">>]}
                    ELSE {})
    /\ cycles = <<>>
    /\ last = Step("init", 0, NoResponse)
    /\ setBy = NobodyYet

\* The steps of one page load in which the user stops starting cycles after
\* MaxLoadCycles of them.
LoadNext ==
    \/ Startup
    \/ \E z \in ZipInputs : setZipCode(z)
    \/ (Len(cycles) < MaxLoadCycles /\ handleZipCodeSubmit)
    \/ (Len(cycles) < MaxLoadCycles /\ handleReset)
    \/ \E i \in 1..Len(cycles) : CallAnswered(i)

\* One page load in which the startup effect runs and every outstanding
\* geolocation request and network call is eventually answered.
LoadSpec ==
    /\ LoadInit
    /\ [][LoadNext]_vars
    /\ WF_vars(Startup)
    /\ \A i \in 1..MaxLoadCycles : WF_vars(CallAnswered(i))

----------------------------------------------------------------------------
\* Properties

MinuteMs == 60000

DayOf(t) == t \div 86400000

\* The cycle the last step belongs to.
LastCycle == cycles[last.cycle]

InFlight == {i \in 1..Len(cycles) : cycles[i].pc # "done"}

FiveDigits(z) == Len(z) = 5 /\ \A i \in 1..Len(z) : z[i] \in Digits

SunReplies == {"SunOK", "SunNotOK", "SunFailed"}

\* C1: right after an OK sun response with sunrise S and sunset T the stored
\* Schedule is sunrise = S, sunset = T, civilDawn = S - 35 min, wakeTime =
\* civilDawn - 45 min = S - 80 min, civilDusk = T + 35 min, (adult) bedtime =
\* T + 150 min and, in the persisted variant, toddlerBedTime = wakeTime - 660
\* min, to the millisecond and whatever day the results fall on.
C1_ScheduleOffsets ==
    last.op = "SunOK" =>
        /\ Len(schedule) = 1
        /\ LET S == DateParse(last.response.sunrise)
               T == DateParse(last.response.sunset)
               sch == schedule[1]
           IN  /\ sch.sunrise = S
               /\ sch.sunset = T
               /\ sch.civilDawn = S - 35 * MinuteMs
               /\ sch.wakeTime = sch.civilDawn - 45 * MinuteMs
               /\ sch.wakeTime = S - 80 * MinuteMs
               /\ sch.civilDusk = T + 35 * MinuteMs
               /\ variant = "default" =>
                    /\ DOMAIN sch = {"wakeTime", "civilDawn", "sunrise", "sunset",
                                     "civilDusk", "bedTime"}
                    /\ sch.bedTime = T + 150 * MinuteMs
               /\ variant = "persisted" =>
                    /\ DOMAIN sch = {"wakeTime", "civilDawn", "sunrise", "sunset",
                                     "civilDusk", "adultBedTime", "toddlerBedTime"}
                    /\ sch.adultBedTime = T + 150 * MinuteMs
                    /\ sch.toddlerBedTime = sch.wakeTime - 660 * MinuteMs

\* A persisted-variant schedule whose wake time and toddler bedtime fall on
\* days before the sunrise and whose adult bedtime falls on the day after the
\* sunset.
C1_Witness ==
    /\ last.op = "SunOK"
    /\ variant = "persisted"
    /\ Len(schedule) = 1
    /\ DayOf(schedule[1].wakeTime) < DayOf(schedule[1].sunrise)
    /\ DayOf(schedule[1].toddlerBedTime) < DayOf(schedule[1].sunrise)
    /\ DayOf(schedule[1].adultBedTime) > DayOf(schedule[1].sunset)
    /\ schedule[1].sunrise % MinuteMs # 0

\* C2: when a cycle ends on a sun response whose status is not OK, the
\* Schedule is what it was when the cycle started and the error message is
\* the generic retry message.
C2_NonSuccessSetsError ==
    last.op = "SunNotOK" =>
        /\ schedule = LastCycle.schedAtStart
        /\ error = SunFailedMsg

\* C3 (as stated): in the persisted variant, once the postal lookup of a form
\* submission has returned coordinates, the submitted code is stored under
\* ZIP_STORAGE_KEY when the cycle ends, whatever the sun-data fetch did.
C3_StoredWhateverTheFetch ==
    (/\ variant = "persisted"
     /\ last.op \in SunReplies
     /\ LastCycle.strategy = "zip"
     /\ LastCycle.origin = "submit")
        => getItem(ZIP_STORAGE_KEY) = <<LastCycle.zip>>

\* C3 (amended): in the persisted variant, a postal-lookup cycle whose
\* sun-data request is answered (status OK or not) ends with its code stored
\* under ZIP_STORAGE_KEY, and one whose sun-data request fails ends without
\* storing anything; a startup that finds a stored code starts a postal
\* lookup of that code and its cycle never requests geolocation; a startup
\* that finds none requests geolocation and no postal lookup.
C3_StoredWhenFetchAnswered ==
    /\ []((/\ variant = "persisted"
           /\ last.op \in {"SunOK", "SunNotOK"}
           /\ LastCycle.strategy = "zip")
              => getItem(ZIP_STORAGE_KEY) = <<LastCycle.zip>>)
    /\ []((variant = "persisted" /\ last.op = "startup") =>
              IF getItem(ZIP_STORAGE_KEY) # <<>>
              THEN /\ LastCycle.strategy = "zip"
                   /\ LastCycle.pc = "zip"
                   /\ <<LastCycle.zip>> = getItem(ZIP_STORAGE_KEY)
                   /\ LastCycle.zipReqs = 1
              ELSE /\ LastCycle.strategy = "geo"
                   /\ LastCycle.pc = "geo"
                   /\ LastCycle.geoReqs = 1)
    /\ [](\A i \in 1..Len(cycles) :
              cycles[i].origin = "startup" =>
                  /\ i = 1
                  /\ cycles[i].strategy = "zip" => cycles[i].geoReqs = 0
                  /\ cycles[i].strategy = "geo" => cycles[i].zipReqs = 0)
    /\ [][(last'.op = "SunFailed" /\ last' # last) => storage' = storage]_vars

\* A page load whose startup found the code a submission of an earlier page
\* load had stored.
C3_Witness ==
    /\ variant = "persisted"
    /\ last.op = "startup"
    /\ LastCycle.strategy = "zip"
    /\ LastCycle.zip = <<"9", "0", "2", "1", "0">>
    /\ getItem(ZIP_STORAGE_KEY) = <<LastCycle.zip>>

\* C4: the form cannot be submitted while the entered code is not exactly
\* five digits or while loading is true, and no form submission starts
\* handleZipCodeSubmit from such a state.
C4_SubmitGuard ==
    /\ []((~FiveDigits(zipCode) \/ loading) => ~CanSubmit)
    /\ [][(last'.op = "handleZipCodeSubmit" /\ last' # last) =>
              /\ ~loading
              /\ FiveDigits(zipCode)
              /\ cycles'[last'.cycle].zip = zipCode]_vars

\* The form is on screen with a five-digit code while the cycle of a
\* submission is loading.
C4_Witness ==
    /\ last.op = "handleZipCodeSubmit"
    /\ FormShown
    /\ loading
    /\ FiveDigits(zipCode)

\* C5: at most one cycle is started and unfinished at any time.
C5_OneCycleInFlight == Cardinality(InFlight) <= 1

\* C6: the step that handles a postal lookup without places (or a failed one)
\* sets the invalid-postal-code message and does not touch the Schedule; in
\* the default variant the Schedule is then the one shown when the form was
\* submitted; and the Schedule is always absent or the complete record
\* derived from one OK response.
C6_LookupFailureKeepsSchedule ==
    /\ [](last.op = "ZipNotFound" =>
              /\ error = InvalidZipMsg
              /\ LastCycle.resolution = "failed"
              /\ variant = "default" => schedule = LastCycle.schedAtStart)
    /\ [](\/ schedule = <<>>
          \/ \E sr \in SunriseStamps : \E ss \in SunsetStamps :
                 schedule = <<scheduleOf(sr, ss)>>)
    /\ [][(last'.op = "ZipNotFound" /\ last' # last) => schedule' = schedule]_vars

\* In the default variant a lookup fails while a Schedule is displayed.
C6_Witness ==
    /\ variant = "default"
    /\ last.op = "ZipNotFound"
    /\ schedule # <<>>
    /\ error = InvalidZipMsg

\* C7: right after the reset action the saved code is absent, the entered
\* code is empty, and exactly one new cycle exists, which has requested
\* geolocation once and no postal lookup.
C7_Reset ==
    /\ [](last.op = "handleReset" =>
              /\ variant = "persisted"
              /\ getItem(ZIP_STORAGE_KEY) = <<>>
              /\ zipCode = <<>>
              /\ last.cycle = Len(cycles)
              /\ LastCycle.origin = "reset"
              /\ LastCycle.pc = "geo"
              /\ LastCycle.geoReqs = 1
              /\ LastCycle.zipReqs = 0
              /\ LastCycle.sunReqs = 0)
    /\ [][(last'.op = "handleReset" /\ last' # last) =>
              /\ Len(cycles') = Len(cycles) + 1
              /\ \A i \in 1..Len(cycles) : cycles'[i] = cycles[i]]_vars

\* The reset is pressed while the startup's lookup of the saved code is still
\* pending: the code was in storage until this step.
C7_Witness ==
    /\ last.op = "handleReset"
    /\ Len(cycles) = 2
    /\ cycles[1].origin = "startup"
    /\ cycles[1].strategy = "zip"
    /\ cycles[1].pc = "zip"

\* C8: every cycle issues exactly one resolution request (geolocation or
\* postal lookup) and at most one sun-data request, the latter only after its
\* resolution succeeded; a cycle whose resolution failed is finished without
\* a sun-data request; and a finished cycle issues nothing more.
C8_OneAttemptNoRetry ==
    /\ [](\A i \in 1..Len(cycles) :
              LET c == cycles[i] IN
              /\ c.geoReqs + c.zipReqs = 1
              /\ c.sunReqs <= 1
              /\ c.sunReqs = 1 => c.resolution = "ok"
              /\ c.resolution = "failed" => (c.sunReqs = 0 /\ c.pc = "done")
              /\ c.resolution = "pending" => c.pc = c.strategy)
    /\ [][\A i \in 1..Len(cycles) :
              (cycles[i].pc = "done" /\ i <= Len(cycles')) =>
                  cycles'[i] = cycles[i]]_vars

\* One cycle gave up on a failed resolution and a later one went on to its
\* sun-data request.
C8_Witness ==
    \E i, j \in 1..Len(cycles) :
        /\ i < j
        /\ cycles[i].resolution = "failed"
        /\ cycles[i].sunReqs = 0
        /\ cycles[j].sunReqs = 1

\* C9: right after an OK sun response the Schedule is the one derived from
\* that response and there is no error message.
C9_SuccessClearsError ==
    last.op = "SunOK" =>
        /\ schedule = <<scheduleOf(last.response.sunrise, last.response.sunset)>>
        /\ error = Null

\* The second cycle succeeds after the first left its error on screen.
C9_Witness ==
    /\ last.op = "SunOK"
    /\ last.cycle = 2
    /\ Len(cycles) = 2
    /\ cycles[1].resolution = "failed"

\* C10: while any cycle has an external call outstanding, loading is true.
C10_LoadingWhileOutstanding == InFlight # {} => loading

\* C11: in the persisted variant, whenever a Schedule and a non-empty
\* location label are on screen, the label was set by the cycle whose sun
\* response produced that Schedule, and is that cycle's label.
C11_LabelNamesScheduleLocation ==
    (variant = "persisted" /\ schedule # <<>> /\ location # "") =>
        /\ setBy.location = setBy.schedule
        /\ location = cycles[setBy.schedule].label

\* C12: when the startup effect runs, every outstanding call is eventually
\* answered and the user eventually stops acting, every started cycle
\* eventually finishes, on whichever path, and whenever loading is true it
\* eventually becomes false.
C12_LoadingReleased ==
    /\ \A i \in 1..MaxLoadCycles :
           (i <= Len(cycles) /\ cycles[i].pc # "done")
               ~> (i <= Len(cycles) /\ cycles[i].pc = "done")
    /\ loading ~> ~loading

\* The cycles of the page load are finished, one on a failure and one on a
\* success, and loading is false.
C12_Witness ==
    /\ ~loading
    /\ InFlight = {}
    /\ \E i, j \in 1..Len(cycles) :
           /\ \/ cycles[i].resolution = "failed"
              \/ cycles[i].sunResult = "failed"
           /\ cycles[j].sunResult = "OK"

====
